---- MODULE Spec2Model ----
(***************************************************************************)
(* Recovery of a project description from the raw text of an LLM reply,    *)
(* as done by OpenRouterClient.save_project_files and by                   *)
(* MoonshotClient.send_prd_request followed by generate_code.              *)
(*                                                                         *)
(* A text is a sequence of atoms.  An atom is one character ("{", "\"",    *)
(* ",", " ", "\n", "\\", ...) or a run of characters none of which is      *)
(* special to the regular expressions or to the JSON grammar ("files",     *)
(* "hello", "a.py"); the fence Fence is one atom, so the texts of the      *)
(* model never hold one or two back-ticks on their own.  The atom "1" is   *)
(* the digit 1, the atom "n" the letter n.                                 *)
(***************************************************************************)
EXTENDS Integers, Sequences, FiniteSets, TLC

\* ------------------------------------------------------------------ text

\* three back-ticks
Fence == "FENCE"

IsWs(c) == c \in {" ", "\n"}

\* the least member of a non-empty set of numbers
Min(S) == CHOOSE x \in S : \A y \in S : x <= y
Max(S) == CHOOSE x \in S : \A y \in S : x >= y

\* the index of the first atom at or after i that is not white space
SkipWs(s, i) ==
    IF i > Len(s) \/ ~IsWs(s[i]) THEN i
    ELSE Min({j \in i..(Len(s) + 1) : j > Len(s) \/ ~IsWs(s[j])})

\* content.strip().startswith('{')
StartsWithBrace(s) == LET i == SkipWs(s, 1) IN i <= Len(s) /\ s[i] = "{"

Count(s, c) == Cardinality({i \in 1..Len(s) : s[i] = c})

Repeat(c, n) == [i \in 1..n |-> c]

\* `$` under re.MULTILINE: the end of the text, or just before a newline
AtEol(s, i) == i > Len(s) \/ s[i] = "\n"

RECURSIVE QuoteMatchEnd(_, _)
\* The rest of ("(?:[^"\\]|\\.)*?)(?<!\\)$ once the quote is read: j is the
\* next unread index.  The index after the match, or 0 when there is none.
QuoteMatchEnd(s, j) ==
    IF AtEol(s, j) /\ s[j - 1] # "\\" THEN j
    ELSE IF j > Len(s) THEN 0
    ELSE IF s[j] = "\"" THEN 0
    ELSE IF s[j] = "\\"
         THEN IF j + 1 <= Len(s) /\ s[j + 1] # "\n"
              THEN QuoteMatchEnd(s, j + 2)
              ELSE 0
    ELSE QuoteMatchEnd(s, j + 1)

\* The quotes at which a match starts: the search goes from left to right and
\* resumes at the end of a match, so a quote inside a match starts none.
Matched(s) ==
    LET Ends(q) == s[q] = "\"" /\ QuoteMatchEnd(s, q + 1) # 0
        starts == {q \in 1..Len(s) : Ends(q)}
    IN  {q \in starts : ~\E r \in starts : r < q /\ q < QuoteMatchEnd(s, r + 1)}

\* re.sub(r'("(?:[^"\\]|\\.)*?)(?<!\\)$', r'\1"', s, flags=re.MULTILINE)
CloseStrings(s) ==
    LET ends == {QuoteMatchEnd(s, q + 1) : q \in Matched(s)}
        \* slot 2k-1 holds the quote put before atom k, slot 2k atom k; "" is
        \* no atom
        slots == [p \in 1..(2 * Len(s) + 1) |->
                    IF p % 2 = 1
                    THEN (IF (p + 1) \div 2 \in ends THEN "\"" ELSE "")
                    ELSE s[p \div 2]]
    IN  SelectSeq(slots, LAMBDA c : c # "")

\* re.sub of ,\s*<closer> by <closer>: a comma that only white space parts
\* from the closer goes, with that white space
StripComma(s, closer) ==
    LET Before(k) == LET j == SkipWs(s, k + 1) IN j <= Len(s) /\ s[j] = closer
        RunStart(k) == CHOOSE a \in 1..k : /\ \A b \in a..k : IsWs(s[b])
                                           /\ a = 1 \/ ~IsWs(s[a - 1])
        Gone(k) == /\ Before(k)
                   /\ \/ s[k] = ","
                      \/ IsWs(s[k]) /\ RunStart(k) > 1 /\ s[RunStart(k) - 1] = ","
        kept == SelectSeq([k \in 1..Len(s) |-> k], LAMBDA k : ~Gone(k))
    IN  [n \in 1..Len(kept) |-> s[kept[n]]]

\* re.sub(r',\s*}', '}', s) and re.sub(r',\s*\]', ']', s)
StripTrailingCommas(s) == StripComma(StripComma(s, "}"), "]")

\* the missing closers: all the braces first, then all the brackets
CloseOpen(s, opener, closer) ==
    LET open == Count(s, opener) - Count(s, closer)
    IN  IF open > 0 THEN s \o Repeat(closer, open) ELSE s

\* the repair steps of Method 1 and of Method 2
Repair(s) ==
    CloseOpen(CloseOpen(StripTrailingCommas(CloseStrings(s)), "{", "}"), "[", "]")

\* ------------------------------------------------------------------ JSON

None == [t |-> "none", v |-> <<>>]
Str(a) == [t |-> "str", v |-> a]
Num(d) == [t |-> "num", v |-> d]
Arr(xs) == [t |-> "arr", v |-> xs]
Obj(ps) == [t |-> "obj", v |-> ps]

Fail == [ok |-> FALSE, val |-> None, next |-> 0]
Ok(val, next) == [ok |-> TRUE, val |-> val, next |-> next]

\* dict(pairs): a later pair of the same key replaces the value in place
Put(ps, k, x) ==
    IF \E i \in 1..Len(ps) : ps[i][1] = k
    THEN [i \in 1..Len(ps) |-> IF ps[i][1] = k THEN <<k, x>> ELSE ps[i]]
    ELSE Append(ps, <<k, x>>)

\* the number of backslashes that stand in a row just before index j
Slashes(s, j) ==
    IF j = 1 \/ s[j - 1] # "\\" THEN 0
    ELSE (j - 1) - Max({k \in 0..(j - 1) : k = 0 \/ s[k] # "\\"})

\* the backslash at index j starts an escape: an even number of backslashes
\* stands before it
Escaping(s, j) == s[j] = "\\" /\ Slashes(s, j) % 2 = 0

\* what the atom at index j of a string gives: nothing ("") for the backslash
\* of an escape, the newline for the n of \n, else the atom
Decoded(s, j) ==
    IF s[j] = "\\" THEN (IF Slashes(s, j) % 2 = 0 THEN "" ELSE "\\")
    ELSE IF s[j] = "n" /\ Slashes(s, j) % 2 = 1 THEN "\n"
    ELSE s[j]

\* the string that stands between the quotes at i - 1 and e
StringBody(s, i, e) ==
    IF \E j \in i..(e - 1) :
           \/ s[j] = "\n"
           \/ Escaping(s, j) /\ s[j + 1] \notin {"\"", "\\", "n"}
    THEN Fail
    ELSE Ok(Str(SelectSeq([k \in 1..(e - i) |-> Decoded(s, i + k - 1)],
                          LAMBDA c : c # "")),
            e + 1)

\* the string whose closing quote is the least of closing
StringUpTo(s, i, closing) ==
    IF closing = {} THEN Fail ELSE StringBody(s, i, Min(closing))

\* py_scanstring; i is the index after the opening quote
ScanString(s, i) ==
    StringUpTo(s, i, {j \in i..Len(s) : s[j] = "\"" /\ Slashes(s, j) % 2 = 0})

\* the digits from index i up to e
NumberUpTo(s, i, e) == Ok(Num(SubSeq(s, i, e - 1)), e)

ScanNumber(s, i) ==
    NumberUpTo(s, i, Min({j \in i..(Len(s) + 1) : j > Len(s) \/ s[j] # "1"}))

\* The scanner as a machine: at is what it is about to read ("value", "key",
\* or "next" once the value val is read), i the index, stack the objects and
\* arrays that are open, each with the key that waits for its value.
Scanning(at, i, val, stack) == [at |-> at, i |-> i, val |-> val, stack |-> stack]
Failed == Scanning("failed", 0, None, <<>>)
Frame(t, v, key) == [t |-> t, v |-> v, key |-> key]

\* a scalar r has been read, or none
AfterScalar(st, r) ==
    IF r.ok THEN Scanning("next", r.next, r.val, st.stack) ELSE Failed

\* an opener of kind t has been read and j is the next index that holds no
\* white space
AfterOpener(s, st, t, j) ==
    IF j <= Len(s) /\ s[j] = (IF t = "obj" THEN "}" ELSE "]")
    THEN Scanning("next", j + 1, [t |-> t, v |-> <<>>], st.stack)
    ELSE Scanning(IF t = "obj" THEN "key" ELSE "value", j, None,
                  Append(st.stack, Frame(t, <<>>, <<>>)))

\* scan_once at index i
StepValue(s, st, i) ==
    IF s[i] = "\"" THEN AfterScalar(st, ScanString(s, i + 1))
    ELSE IF s[i] = "{" THEN AfterOpener(s, st, "obj", SkipWs(s, i + 1))
    ELSE IF s[i] = "[" THEN AfterOpener(s, st, "arr", SkipWs(s, i + 1))
    ELSE IF s[i] = "1" THEN AfterScalar(st, ScanNumber(s, i))
    ELSE Failed

\* the key k has been read and c is the next index that holds no white space
AfterKey(s, st, top, k, c) ==
    IF c <= Len(s) /\ s[c] = ":"
    THEN Scanning("value", SkipWs(s, c + 1), None,
                  Append(SubSeq(st.stack, 1, Len(st.stack) - 1),
                         Frame("obj", top.v, k.val.v)))
    ELSE Failed

\* the key has been read, or none
KeyRead(s, st, k) ==
    IF k.ok THEN AfterKey(s, st, st.stack[Len(st.stack)], k, SkipWs(s, k.next))
    ELSE Failed

\* JSONObject where a key must stand
StepKey(s, st, i) ==
    IF s[i] = "\"" THEN KeyRead(s, st, ScanString(s, i + 1)) ELSE Failed

\* JSONObject and JSONArray once a value is read: top is the innermost open
\* object or array, and into its items with the value added
StepNext(s, st, i, top, into) ==
    IF s[i] = (IF top.t = "obj" THEN "}" ELSE "]")
    THEN Scanning("next", i + 1, [t |-> top.t, v |-> into],
                  SubSeq(st.stack, 1, Len(st.stack) - 1))
    ELSE IF s[i] = ","
    THEN Scanning(IF top.t = "obj" THEN "key" ELSE "value", SkipWs(s, i + 1), None,
                  Append(SubSeq(st.stack, 1, Len(st.stack) - 1),
                         Frame(top.t, into, <<>>)))
    ELSE Failed

\* the items of the open object or array top with value x added
Added(top, x) == IF top.t = "obj" THEN Put(top.v, top.key, x) ELSE Append(top.v, x)

\* one step of the scanner at index i
StepAt(s, st, i) ==
    IF i > Len(s) THEN Failed
    ELSE IF st.at = "value" THEN StepValue(s, st, i)
    ELSE IF st.at = "key" THEN StepKey(s, st, i)
    ELSE StepNext(s, st, i, st.stack[Len(st.stack)],
                  Added(st.stack[Len(st.stack)], st.val))

\* white space is skipped after a value
ScanStep(s, st) == StepAt(s, st, IF st.at = "next" THEN SkipWs(s, st.i) ELSE st.i)

RECURSIVE ScanRun(_, _)
\* the steps up to the end of the outermost value
ScanRun(s, st) ==
    IF st.at = "failed" THEN Fail
    ELSE IF st.at = "next" /\ st.stack = <<>> THEN Ok(st.val, st.i)
    ELSE ScanRun(s, ScanStep(s, st))

\* scan_once at index i
ScanValue(s, i) == ScanRun(s, Scanning("value", i, None, <<>>))

\* the value r, when only white space follows it
Whole(s, r) == IF r.ok /\ SkipWs(s, r.next) = Len(s) + 1 THEN r ELSE Fail

\* json.loads: one value, white space around it, nothing after it
JsonLoads(s) == Whole(s, ScanValue(s, SkipWs(s, 1)))

\* ------------------------------------------------------------ json.dumps

EscapeAtom(c) ==
    IF c = "\"" THEN <<"\\", "\"">>
    ELSE IF c = "\\" THEN <<"\\", "\\">>
    ELSE IF c = "\n" THEN <<"\\", "n">>
    ELSE <<c>>

RECURSIVE EscapeRange(_, _, _)
EscapeRange(a, lo, hi) ==
    IF lo > hi THEN <<>>
    ELSE IF lo = hi THEN EscapeAtom(a[lo])
    ELSE LET mid == (lo + hi) \div 2
         IN  EscapeRange(a, lo, mid) \o EscapeRange(a, mid + 1, hi)

\* the body of a JSON string literal
Escape(a) == EscapeRange(a, 1, Len(a))

Literal(a) == <<"\"">> \o Escape(a) \o <<"\"">>

RECURSIVE Dumps(_, _, _, _)
\* The text of x.  nl = TRUE is json.dumps(x, indent=2) at nesting level lvl;
\* nl = FALSE writes no newline and sp after each "," and ":".
Dumps(x, nl, sp, lvl) ==
    LET open == IF nl THEN <<"\n">> \o Repeat(" ", 2 * (lvl + 1)) ELSE <<>>
        close == IF nl THEN <<"\n">> \o Repeat(" ", 2 * lvl) ELSE <<>>
        comma == IF nl THEN <<",">> \o open ELSE <<",">> \o sp
        colon == IF nl THEN <<":", " ">> ELSE <<":">> \o sp
        Item(i) == IF x.t = "obj"
                   THEN Literal(x.v[i][1]) \o colon \o Dumps(x.v[i][2], nl, sp, lvl + 1)
                   ELSE Dumps(x.v[i], nl, sp, lvl + 1)
        Items[i \in 0..Len(x.v)] ==
            IF i = 0 THEN <<>>
            ELSE Items[i - 1] \o (IF i = 1 THEN <<>> ELSE comma) \o Item(i)
    IN  IF x.t = "str" THEN Literal(x.v)
        ELSE IF x.t = "num" THEN x.v
        ELSE IF x.v = <<>> THEN (IF x.t = "obj" THEN <<"{", "}">> ELSE <<"[", "]">>)
        ELSE (IF x.t = "obj" THEN <<"{">> ELSE <<"[">>) \o open \o Items[Len(x.v)]
             \o close \o (IF x.t = "obj" THEN <<"}">> ELSE <<"]">>)

\* json.dumps(x, indent=2)
DumpsIndent(x) == Dumps(x, TRUE, <<>>, 0)

\* ------------------------------------------------------ pattern searches

\* the least index >= i at which c stands, or 0
IndexFrom(s, i, c) ==
    LET at == {j \in i..Len(s) : s[j] = c} IN IF at = {} THEN 0 ELSE Min(at)

\* the greatest index at which c stands, or 0
LastIndex(s, c) ==
    LET at == {j \in 1..Len(s) : s[j] = c} IN IF at = {} THEN 0 ELSE Max(at)

\* the start of the white space that ends just before index f, not below q
TrimLeft(s, q, f) == Min({e \in q..f : \A k \in e..(f - 1) : IsWs(s[k])})

RECURSIVE BlocksFrom(_, _)
BlocksFrom(s, i) ==
    LET a == IndexFrom(s, i, Fence)
        p == IF a + 1 <= Len(s) /\ s[a + 1] = "json" THEN a + 2 ELSE a + 1
        q == SkipWs(s, p)
        f == IndexFrom(s, q, Fence)
    IN  IF a = 0 \/ f = 0 THEN <<>>
        ELSE <<SubSeq(s, q, TrimLeft(s, q, f) - 1)>> \o BlocksFrom(s, f + 1)

\* re.findall(r'FENCE(?:json)?\s*([\s\S]*?)\s*FENCE', content)
Blocks(s) == BlocksFrom(s, 1)

\* "<key>"\s*:\s* at index i: the index after it, or 0
MarkerEnd(s, i, key) ==
    IF i + 2 <= Len(s) /\ s[i] = "\"" /\ s[i + 1] = key /\ s[i + 2] = "\""
    THEN LET c == SkipWs(s, i + 3)
         IN  IF c <= Len(s) /\ s[c] = ":" THEN SkipWs(s, c + 1) ELSE 0
    ELSE 0

\* the index of the [ of the first "files"\s*:\s*\[, or 0
FilesMarker(s) ==
    LET IsAt(i) == LET b == MarkerEnd(s, i, "files")
                   IN  b # 0 /\ b <= Len(s) /\ s[b] = "["
        at == {i \in 1..Len(s) : IsAt(i)}
    IN  IF at = {} THEN 0 ELSE MarkerEnd(s, Min(at), "files")

\* re.search(r'"files"\s*:\s*\[([\s\S]+)\]', content): found, group 1
FilesMatch(s) ==
    LET b == FilesMarker(s)
        r == LastIndex(s, "]")
    IN  IF b # 0 /\ r >= b + 2
        THEN [found |-> TRUE, group |-> SubSeq(s, b + 1, r - 1)]
        ELSE [found |-> FALSE, group |-> <<>>]

\* re.search(r'"project_name"\s*:\s*"([^"]+)"', content): found, group 1
NameMatch(s) ==
    LET Open(i) == MarkerEnd(s, i, "project_name")
        Close(i) == IndexFrom(s, Open(i) + 1, "\"")
        IsAt(i) == /\ Open(i) # 0 /\ Open(i) <= Len(s) /\ s[Open(i)] = "\""
                   /\ Close(i) > Open(i) + 1
        at == {i \in 1..Len(s) : IsAt(i)}
    IN  IF at = {} THEN [found |-> FALSE, group |-> <<>>]
        ELSE [found |-> TRUE,
              group |-> SubSeq(s, Open(Min(at)) + 1, Close(Min(at)) - 1)]

\* re.search(r'FENCEjson\s*([\s\S]*?)\s*FENCE', content): found, group 1
JsonFenceMatch(s) ==
    LET at == {a \in 1..(Len(s) - 1) :
                  s[a] = Fence /\ s[a + 1] = "json" /\ IndexFrom(s, a + 2, Fence) # 0}
        q == SkipWs(s, Min(at) + 2)
        f == IndexFrom(s, q, Fence)
    IN  IF at = {} THEN [found |-> FALSE, group |-> <<>>]
        ELSE [found |-> TRUE, group |-> SubSeq(s, q, TrimLeft(s, q, f) - 1)]

\* re.search(r'\{[\s\S]*\}', text): found, the whole match
BraceSpan(s) ==
    LET a == IndexFrom(s, 1, "{")
        b == LastIndex(s, "}")
    IN  IF a # 0 /\ b > a
        THEN [found |-> TRUE, group |-> SubSeq(s, a, b)]
        ELSE [found |-> FALSE, group |-> <<>>]


\* ------------------------------------------------------- Python values

\* bool(x)
Truthy(x) == IF x.t = "none" THEN FALSE ELSE x.v # <<>>

HasKey(x, k) == \E i \in 1..Len(x.v) : x.v[i][1] = k

\* x[k] of a dict that has k
Item(x, k) == x.v[CHOOSE i \in 1..Len(x.v) : x.v[i][1] = k][2]

\* x.get(k, default) of a dict
Get(x, k, default) == IF HasKey(x, k) THEN Item(x, k) ELSE default

DefaultName == <<"generated_project">>

\* a response of the shape the prompts ask for
Entry(path, text) == Obj(<< <<<<"path">>, Str(path)>>, <<<<"content">>, Str(text)>> >>)
Descriptor(name, files) ==
    Obj(<< <<<<"project_name">>, Str(name)>>, <<<<"files">>, Arr(files)>> >>)

\* --------------------------------------- OpenRouterClient.save_project_files

\* `re` is a local name of save_project_files, bound by the `import re` that
\* Method 2 runs; the module imports no re.  Method 1 reads it before that.
ReBoundInMethod1 == FALSE

\* what a method gives when json.loads gave r
Loaded(r) == [raised |-> "none", ok |-> r.ok, val |-> r.val]

\* Method 1: [raised, ok, val]
Method1Outcome(text) ==
    IF ~StartsWithBrace(text) THEN [raised |-> "none", ok |-> FALSE, val |-> None]
    ELSE IF ~ReBoundInMethod1
         THEN [raised |-> "UnboundLocalError", ok |-> FALSE, val |-> None]
    ELSE Loaded(JsonLoads(Repair(text)))

RECURSIVE LastParsed(_, _)
RECURSIVE FirstParsed(_, _)

\* block i gave r and the loop goes on over the blocks after it
NoBreak(bs, i, r, rest) ==
    IF rest.ok THEN rest
    ELSE IF r.ok THEN [ok |-> TRUE, val |-> r.val, tried |-> i]
    ELSE rest

\* the loop of Method 2 without its break: the last block that parses stays
LastParsed(bs, i) ==
    IF i > Len(bs) THEN [ok |-> FALSE, val |-> None, tried |-> Len(bs)]
    ELSE NoBreak(bs, i, JsonLoads(Repair(bs[i])), LastParsed(bs, i + 1))

\* block i gave r: break, or continue with the next block
BreakOrContinue(bs, i, r) ==
    IF r.ok THEN [ok |-> TRUE, val |-> r.val, tried |-> i]
    ELSE FirstParsed(bs, i + 1)

\* the loop of Method 2 from block i on: the first block whose repaired text
\* parses ends it
FirstParsed(bs, i) ==
    IF i > Len(bs) THEN [ok |-> FALSE, val |-> None, tried |-> Len(bs)]
    ELSE BreakOrContinue(bs, i, JsonLoads(Repair(bs[i])))

Method2Outcome(text) == FirstParsed(Blocks(text), 1)

\* the descriptor of the name found, or of the default one, and of the files r
Reconstructed(nm, r) ==
    IF r.ok
    THEN [ok |-> TRUE,
          val |-> Descriptor(IF nm.found THEN nm.group ELSE DefaultName, r.val.v)]
    ELSE [ok |-> FALSE, val |-> None]

\* the files array found is parsed between brackets of its own
FilesParsed(nm, fm) ==
    IF fm.found THEN Reconstructed(nm, JsonLoads(<<"[">> \o fm.group \o <<"]">>))
    ELSE [ok |-> FALSE, val |-> None]

\* Method 3: the name found or the default one, and the files array
Method3Outcome(text) == FilesParsed(NameMatch(text), FilesMatch(text))

\* one turn of the loop that saves the files: [raised, created, path, text]
SaveOne(info) ==
    IF info.t # "obj"
    THEN [raised |-> "TypeError", created |-> FALSE, path |-> <<>>, text |-> <<>>]
    ELSE IF ~HasKey(info, <<"path">>)
    THEN [raised |-> "KeyError", created |-> FALSE, path |-> <<>>, text |-> <<>>]
    ELSE IF Item(info, <<"path">>).t # "str"
    THEN [raised |-> "TypeError", created |-> FALSE, path |-> <<>>, text |-> <<>>]
    ELSE LET path == Item(info, <<"path">>).v
         IN  IF path = <<>>
             THEN [raised |-> "IsADirectoryError", created |-> FALSE,
                   path |-> path, text |-> <<>>]
             ELSE IF ~HasKey(info, <<"content">>)
             THEN [raised |-> "KeyError", created |-> TRUE, path |-> path, text |-> <<>>]
             ELSE IF Item(info, <<"content">>).t # "str"
             THEN [raised |-> "TypeError", created |-> TRUE, path |-> path, text |-> <<>>]
             ELSE [raised |-> "none", created |-> TRUE, path |-> path,
                   text |-> Item(info, <<"content">>).v]

\* what iterating x yields
Iterate(x) ==
    IF x.t = "arr" THEN x.v
    ELSE IF x.t = "obj" THEN [i \in 1..Len(x.v) |-> Str(x.v[i][1])]
    ELSE IF x.t = "str" THEN [i \in 1..Len(x.v) |-> Str(<<x.v[i]>>)]
    ELSE <<>>

RECURSIVE SaveFrom(_, _, _, _)
\* the loop over the files from item i on: [raised, files]
SaveFrom(dir, items, i, done) ==
    IF i > Len(items) THEN [raised |-> "none", files |-> done]
    ELSE LET one == SaveOne(items[i])
             now == IF one.created
                    THEN Append(done, [dir |-> dir, path |-> one.path, text |-> one.text])
                    ELSE done
         IN  IF one.raised # "none" THEN [raised |-> one.raised, files |-> now]
             ELSE SaveFrom(dir, items, i + 1, now)

\* the files of data written under the directory named by its project name
SaveOutcome(data) ==
    IF data.t # "obj" THEN [raised |-> "AttributeError", files |-> <<>>]
    ELSE LET name == Get(data, <<"project_name">>, Str(DefaultName))
             files == Get(data, <<"files">>, Arr(<<>>))
         IN  IF name.t # "str" THEN [raised |-> "TypeError", files |-> <<>>]
             ELSE IF files.t = "num" THEN [raised |-> "TypeError", files |-> <<>>]
             ELSE SaveFrom(name.v, Iterate(files), 1, <<>>)

\* os.makedirs(project_path): the directory of the project when the names
\* before it are read without an exception
ProjectPath(data) ==
    IF data.t = "obj" /\ Get(data, <<"project_name">>, Str(DefaultName)).t = "str"
    THEN {Get(data, <<"project_name">>, Str(DefaultName)).v}
    ELSE {}

\* project_data after a method that gave m, when it was d before
Kept(d, m) == IF ~Truthy(d) /\ m.ok THEN m.val ELSE d

\* project_data after Methods 2 and 3, when Method 1 gave m1
AfterMethod1(text, m1) ==
    IF m1.raised # "none" THEN [raised |-> m1.raised, val |-> None]
    ELSE [raised |-> "none",
          val |-> Kept(Kept(Kept(None, m1), Method2Outcome(text)),
                       Method3Outcome(text))]

\* the value of project_data once the three methods have run, or the exception
\* that ended them: [raised, val]
Recover(text) == AfterMethod1(text, Method1Outcome(text))

\* an except clause that names json.JSONDecodeError only
CaughtDecodeErrorOnly(e) == e = "JSONDecodeError"

\* except Exception as e: every exception raised in the body is caught
Caught(e) == TRUE

\* ---------------------- MoonshotClient.send_prd_request and generate_code

\* the text taken for JSON: the fenced block, else the span of the braces, else
\* the whole content
Picked(text, fm, bm) ==
    IF fm.found THEN fm.group ELSE IF bm.found THEN bm.group ELSE text

JsonContent(text) == Picked(text, JsonFenceMatch(text), BraceSpan(text))

\* send_prd_request without the check of the text it found: what it found is
\* returned as it is
MoonshotUnchecked(text, name) == JsonContent(text)

\* json_content when it is proper JSON, else the content wrapped as README.md
Validated(text, name, json_content) ==
    IF JsonLoads(json_content).ok THEN json_content
    ELSE DumpsIndent(Descriptor(name, <<Entry(<<"README.md">>, text)>>))

\* the text that send_prd_request returns for the content of the reply
MoonshotOutcome(text, name) == Validated(text, name, JsonContent(text))

\* json.loads of the span gave r
AppLoaded(r) ==
    IF r.ok THEN [status |-> "ok", val |-> r.val]
    ELSE [status |-> "500 Failed to parse", val |-> None]

\* the search for the span of the braces gave m
AppMatched(m) ==
    IF m.found THEN AppLoaded(JsonLoads(m.group))
    ELSE [status |-> "500 Invalid response format", val |-> None]

\* generate_code, "Parse JSON response": [status, val]
AppParseOutcome(text) == AppMatched(BraceSpan(text))

\* the client's send_prd_request returns a text: OpenRouterClient returns the
\* decoded reply, and re.search raises TypeError on it
ReturnsText(c) == c # "gemini"

\* the file that keeps a response that did not parse, in the working directory
DebugResponse(name, text) ==
    [dir |-> <<".">>, path |-> <<"debug_response_">> \o name \o <<".json">>,
     text |-> text]

\* one turn of the loop of generate_code that creates the files
AppSaveOne(info) ==
    IF info.t # "obj"
    THEN [raised |-> "TypeError", created |-> FALSE, path |-> <<>>, text |-> <<>>]
    ELSE IF ~HasKey(info, <<"path">>) \/ ~HasKey(info, <<"content">>)
    THEN [raised |-> "KeyError", created |-> FALSE, path |-> <<>>, text |-> <<>>]
    ELSE IF Item(info, <<"path">>).t # "str"
    THEN [raised |-> "TypeError", created |-> FALSE, path |-> <<>>, text |-> <<>>]
    ELSE LET path == Item(info, <<"path">>).v
         IN  IF path = <<>>
             THEN [raised |-> "IsADirectoryError", created |-> FALSE,
                   path |-> path, text |-> <<>>]
             ELSE IF Item(info, <<"content">>).t # "str"
             THEN [raised |-> "TypeError", created |-> TRUE, path |-> path, text |-> <<>>]
             ELSE [raised |-> "none", created |-> TRUE, path |-> path,
                   text |-> Item(info, <<"content">>).v]

RECURSIVE AppSaveFrom(_, _, _, _)
AppSaveFrom(dir, items, i, done) ==
    IF i > Len(items) THEN [raised |-> "none", files |-> done]
    ELSE LET one == AppSaveOne(items[i])
             now == IF one.created
                    THEN Append(done, [dir |-> dir, path |-> one.path, text |-> one.text])
                    ELSE done
         IN  IF one.raised # "none" THEN [raised |-> one.raised, files |-> now]
             ELSE AppSaveFrom(dir, items, i + 1, now)

\* generate_code, "Create files in project directory", under the directory
\* named by the caller's project name
AppSaveOutcome(data, name) ==
    LET files == Get(data, <<"files">>, Arr(<<>>))
    IN  IF files.t = "num" THEN [raised |-> "TypeError", files |-> <<>>]
        ELSE AppSaveFrom(name, Iterate(files), 1, <<>>)

\* ------------------------------------------------------------ the replies

\* the greatest number of files of a reply
MaxFiles == 2
\* the greatest number of fenced blocks of a reply made of blocks
MaxBlocks == 2

SeqsUpTo(S, n) == UNION {[1..k -> S] : k \in 0..n}

Paths == << <<"a.py">>, <<"b">>, <<"src/c.txt">> >>
Texts == << <<"print(1)">>, <<"x">>, <<"hello", " ", "world">> >>

\* the k-th file of a reply
EntryNo(k) == Entry(Paths[((k - 1) % Len(Paths)) + 1], Texts[((k - 1) % Len(Texts)) + 1])

\* the first n files
FirstEntries(n) == [k \in 1..n |-> EntryNo(k)]

\* an entry whose content holds a code fence
FencedEntry == Entry(<<"README.md">>, <<Fence, "1", Fence>>)

Descriptors == {Descriptor(<<"demo">>, FirstEntries(n)) : n \in 0..MaxFiles}

Spacings == {<<>>, <<" ">>}

\* the replies that are a well-formed document of the shape asked for
Docs == {Dumps(d, FALSE, sp, 0) : d \in Descriptors, sp \in Spacings}

\* the replies cut off before their end
Truncated ==
    UNION {{SubSeq(t, 1, k) : k \in 1..(Len(t) - 1)} :
             t \in {Dumps(d, FALSE, <<" ">>, 0) : d \in Descriptors}}

Proses ==
    { <<"hello">>, <<"hello", " ", "world">>, <<"hello", ",", "\n", "world">>,
      <<"hello", ":", " ", "1">> }

Before == {<<>>, <<"hello", ":", "\n">>}
After == {<<>>, <<"\n", "hello">>, <<"\n", "hello", " ", "[", "1", "]">>}
Tags == {<<>>, <<"json">>}

\* prose, then a fenced block that holds a well-formed document, then prose
Fenced ==
    { pre \o <<Fence>> \o tag \o <<"\n">> \o doc \o <<"\n", Fence>> \o post :
        pre \in Before, tag \in Tags, doc \in Docs, post \in After }

BlockBodies ==
    { <<"x">>, <<"1">>, <<"[", "1">>, <<"[", "1", ",", " ", "]">>, <<"{", "}">>,
      <<"\"", "x">>, <<"{", "\"", "a", "\"", ":", "1", "}">> }

RECURSIVE JoinBlocks(_, _)
JoinBlocks(bs, i) ==
    IF i > Len(bs) THEN <<>>
    ELSE <<Fence, "\n">> \o bs[i] \o <<"\n", Fence, "\n">> \o JoinBlocks(bs, i + 1)

\* replies made of fenced blocks only
BlockTexts == {JoinBlocks(bs, 1) : bs \in SeqsUpTo(BlockBodies, MaxBlocks)}

\* replies that hold the files array only
FilesOnly ==
    { <<"\"", "files", "\"", ":">> \o sp \o Dumps(Arr(fl), FALSE, sp, 0) :
        fl \in {FirstEntries(n) \o tail : n \in 0..MaxFiles,
                                          tail \in {<<>>, <<FencedEntry>>}},
        sp \in Spacings }

\* replies that are JSON but hold no single object: a number, and an array
\* in a block tagged json, without and with objects in it
NotObjects ==
    { <<"1">>,
      <<Fence, "json", "\n", "[", "1", "]", "\n", Fence>>,
      <<Fence, "json", "\n", "[", "{", "}", ",", " ", "{", "}", "]", "\n", Fence>> }

Inputs ==
    Docs \cup Truncated \cup Proses \cup Fenced \cup BlockTexts \cup FilesOnly
      \cup NotObjects

\* the project name the caller passes
CallerNames == {<<"MyProject">>, <<"shop">>}

\* "openrouter": save_project_files is given the reply; the others are the
\* models of generate_code: "gemini" goes through OpenRouterClient, "moonshot"
\* (the model kimi) through MoonshotClient, "qwen" and "qwen235" through
\* AlibabCloudClient
Clients == {"openrouter", "gemini", "moonshot", "qwen", "qwen235"}

\* ------------------------------------------------------------- the state

VARIABLES
    client,        \* the client that handles the reply
    content,       \* choices[0].message.content of the reply
    caller_name,   \* the project name the caller chose
    pc,            \* where the handling stands
    project_data,  \* project_data of save_project_files, response_data of generate_code
    trace,         \* the methods run so far, each with what it gave
    response,      \* the text send_prd_request returned to generate_code
    ret,           \* the value returned, "pending" before
    raised,        \* the exception raised inside the handler, "none" without
    escaped,       \* TRUE once an exception has left the handler
    writes,        \* the files written, in order
    dirs           \* the directories made besides those of the files written

\* two calls of save_project_files that run at the same time
VARIABLES
    disk,          \* the files under the output directory: path -> text
    saver,         \* of each call: where it stands, its reply and what it holds
    same_second    \* the two calls write their raw content in the same second

\* the configuration files of ConfigManager
VARIABLES
    existing,      \* the configuration files that exist
    api_keys,      \* the dict in API-KEYS.json
    settings,      \* the dict in SETTINGS.json
    history,       \* the dict in path-history.json
    called         \* the call of config_manager made last

\* the requests that update the configuration at the same time
VARIABLES
    thread         \* of each request: where it stands, its call, the dict it loaded

\* one request to /api/generate, from the form to the answer
VARIABLES
    form,          \* the fields of the request as request.form.get gives them
    ALIBABA_KEYS,  \* the keys of the server
    where,         \* where generate_code stands
    api_key,       \* api_key of generate_code
    output_dir,    \* output_dir of generate_code
    project_name,  \* project_name of generate_code
    sent,          \* the requests sent upstream, in order
    upstream,      \* what the upstream API answered
    token_info,    \* token_info as the client returned it
    created,       \* the directories and files created, where they lie
    generation_info, \* the dict written to _generation_info.json
    answer         \* the answer to the request

reply_vars == <<client, content, caller_name, pc, project_data, trace, response, ret,
                raised, escaped, writes, dirs>>
save_vars == <<disk, saver, same_second>>
config_vars == <<existing, api_keys, settings, history, called>>
race_vars == <<thread>>

request_vars == <<form, ALIBABA_KEYS, where, api_key, output_dir, project_name, sent, upstream,
                  token_info, created, generation_info, answer>>

vars == <<reply_vars, save_vars, config_vars, race_vars, request_vars>>

\* no reply is being handled
NoReply ==
    /\ client = "none" /\ content = <<>> /\ caller_name = <<>> /\ pc = "none"
    /\ project_data = None /\ trace = <<>> /\ response = <<>> /\ ret = "pending"
    /\ raised = "none" /\ escaped = FALSE /\ writes = <<>> /\ dirs = {}

\* no two calls of save_project_files are running
NoSavers == disk = <<>> /\ saver = <<>> /\ same_second = FALSE

\* no configuration is looked at
NoConfig ==
    /\ existing = {} /\ api_keys = <<>> /\ settings = <<>> /\ history = <<>>
    /\ called = [op |-> "none"]

\* no requests update the configuration
NoRequests == thread = <<>>

\* no request to /api/generate is handled
NoGenerate ==
    /\ form = <<>> /\ ALIBABA_KEYS = <<>> /\ where = "none" /\ api_key = "" /\ output_dir = <<>>
    /\ project_name = <<>> /\ sent = <<>> /\ upstream = <<>> /\ token_info = <<>>
    /\ created = {} /\ generation_info = <<>> /\ answer = <<>>

\* where the handling of the reply starts
Entered(c) ==
    CASE c = "openrouter" -> "debug"
      [] c = "gemini" -> "openrouter_send"
      [] c = "moonshot" -> "moonshot"
      [] OTHER -> "alibaba"

Init ==
    /\ client \in Clients
    /\ content \in Inputs
    /\ caller_name \in CallerNames
    /\ pc = Entered(client)
    /\ project_data = None
    /\ trace = <<>>
    /\ response = <<>>
    /\ ret = "pending"
    /\ raised = "none"
    /\ escaped = FALSE
    /\ writes = <<>>
    /\ dirs = {}
    /\ NoSavers /\ NoConfig /\ NoRequests /\ NoGenerate

Ran(stage, ok, val, tried) == [stage |-> stage, ok |-> ok, val |-> val, tried |-> tried]

\* save_project_files without its copy of the raw content: the output
\* directory is made and the parsing starts
SaveRawNoCopy ==
    /\ pc = "debug"
    /\ UNCHANGED <<save_vars, config_vars, race_vars, request_vars>>
    /\ dirs' = dirs \cup {<<>>}
    /\ pc' = "method1"
    /\ UNCHANGED <<client, content, caller_name, project_data, trace, response, ret,
                   raised, escaped, writes>>

\* save_project_files: the raw content is saved before any parsing
SaveRaw ==
    /\ pc = "debug"
    /\ UNCHANGED <<save_vars, config_vars, race_vars, request_vars>>
    /\ writes' = Append(writes, [dir |-> <<>>, path |-> <<"raw_content.txt">>,
                                 text |-> content])
    /\ dirs' = dirs \cup {<<>>}
    /\ pc' = "method1"
    /\ UNCHANGED <<client, content, caller_name, project_data, trace, response, ret,
                   raised, escaped>>

Method1 ==
    /\ pc = "method1"
    /\ UNCHANGED <<save_vars, config_vars, race_vars, request_vars>>
    /\ \E o \in {Method1Outcome(content)} :
           /\ trace' = Append(trace, Ran(1, o.ok, o.val, 0))
           /\ raised' = o.raised
           /\ pc' = IF o.raised # "none" THEN "raised" ELSE "method2"
           /\ project_data' = IF o.ok THEN o.val ELSE project_data
    /\ UNCHANGED <<client, content, caller_name, response, ret, escaped, writes, dirs>>

Method2 ==
    /\ pc = "method2"
    /\ UNCHANGED <<save_vars, config_vars, race_vars, request_vars>>
    /\ IF ~Truthy(project_data)
       THEN \E o \in {Method2Outcome(content)} :
                /\ trace' = Append(trace, Ran(2, o.ok, o.val, o.tried))
                /\ project_data' = IF o.ok THEN o.val ELSE project_data
       ELSE UNCHANGED <<trace, project_data>>
    /\ pc' = "method3"
    /\ UNCHANGED <<client, content, caller_name, response, ret, raised, escaped, writes,
                   dirs>>

Method3 ==
    /\ pc = "method3"
    /\ UNCHANGED <<save_vars, config_vars, race_vars, request_vars>>
    /\ IF ~Truthy(project_data)
       THEN \E o \in {Method3Outcome(content)} :
                /\ trace' = Append(trace, Ran(3, o.ok, o.val, 0))
                /\ project_data' = IF o.ok THEN o.val ELSE project_data
       ELSE UNCHANGED <<trace, project_data>>
    /\ pc' = "check"
    /\ UNCHANGED <<client, content, caller_name, response, ret, raised, escaped, writes,
                   dirs>>

\* if not project_data: return False
Check ==
    /\ pc = "check"
    /\ UNCHANGED <<save_vars, config_vars, race_vars, request_vars>>
    /\ IF ~Truthy(project_data)
       THEN ret' = "False" /\ pc' = "done"
       ELSE ret' = ret /\ pc' = "save"
    /\ UNCHANGED <<client, content, caller_name, project_data, trace, response,
                   raised, escaped, writes, dirs>>

Save ==
    /\ pc = "save"
    /\ UNCHANGED <<save_vars, config_vars, race_vars, request_vars>>
    /\ \E o \in {SaveOutcome(project_data)} :
           /\ writes' = writes \o o.files
           /\ dirs' = dirs \cup ProjectPath(project_data)
           /\ raised' = o.raised
           /\ IF o.raised # "none"
              THEN ret' = ret /\ pc' = "raised"
              ELSE ret' = "True" /\ pc' = "done"
    /\ UNCHANGED <<client, content, caller_name, project_data, trace, response, escaped>>

\* except Exception as e: ... return False
Except ==
    /\ pc = "raised"
    /\ UNCHANGED <<save_vars, config_vars, race_vars, request_vars>>
    /\ IF Caught(raised)
       THEN ret' = (IF client = "openrouter" THEN "False" ELSE "500") /\ escaped' = escaped
       ELSE ret' = ret /\ escaped' = TRUE
    /\ pc' = "done"
    /\ UNCHANGED <<client, content, caller_name, project_data, trace, response,
                   raised, writes, dirs>>

\* MoonshotClient.send_prd_request, from the content of the reply on
Moonshot ==
    /\ pc = "moonshot"
    /\ UNCHANGED <<save_vars, config_vars, race_vars, request_vars>>
    /\ response' = MoonshotOutcome(content, caller_name)
    /\ pc' = "app_parse"
    /\ UNCHANGED <<client, content, caller_name, project_data, trace, ret, raised,
                   escaped, writes, dirs>>

\* OpenRouterClient.send_prd_request returns the decoded reply, which is no text
OpenRouterSend ==
    /\ pc = "openrouter_send"
    /\ UNCHANGED <<save_vars, config_vars, race_vars, request_vars>>
    /\ pc' = "app_parse"
    /\ UNCHANGED <<client, content, caller_name, project_data, trace, response, ret,
                   raised, escaped, writes, dirs>>

\* AlibabCloudClient.send_prd_request returns the content of the reply
Alibaba ==
    /\ pc = "alibaba"
    /\ UNCHANGED <<save_vars, config_vars, race_vars, request_vars>>
    /\ response' = content
    /\ pc' = "app_parse"
    /\ UNCHANGED <<client, content, caller_name, project_data, trace, ret, raised,
                   escaped, writes, dirs>>

\* generate_code from the response on: an empty response ends the request;
\* else the output directory and the project directory are made, then the
\* response is parsed; a response that does not parse is saved in the working
\* directory
AppParse ==
    /\ pc = "app_parse"
    /\ UNCHANGED <<save_vars, config_vars, race_vars, request_vars>>
    /\ \E o \in {IF ~ReturnsText(client) THEN [status |-> "TypeError", val |-> None]
                 ELSE IF response = <<>>
                 THEN [status |-> "500 Failed to get response", val |-> None]
                 ELSE AppParseOutcome(response)} :
           /\ dirs' = IF o.status = "500 Failed to get response" THEN dirs
                       ELSE dirs \cup {<<>>, caller_name}
           /\ project_data' = IF o.status = "ok" THEN o.val ELSE project_data
           /\ raised' = IF o.status = "TypeError" THEN o.status ELSE raised
           /\ ret' = IF o.status \in {"ok", "TypeError"} THEN ret ELSE o.status
           /\ pc' = CASE o.status = "ok" -> "app_save"
                      [] o.status = "TypeError" -> "raised"
                      [] OTHER -> "done"
           /\ writes' = IF o.status = "500 Failed to parse"
                         THEN Append(writes, DebugResponse(caller_name, response))
                         ELSE writes
    /\ UNCHANGED <<client, content, caller_name, trace, response, escaped>>

AppSave ==
    /\ pc = "app_save"
    /\ UNCHANGED <<save_vars, config_vars, race_vars, request_vars>>
    /\ \E o \in {AppSaveOutcome(project_data, caller_name)} :
           /\ writes' = writes \o o.files
           /\ raised' = o.raised
           /\ IF o.raised # "none"
              THEN ret' = ret /\ pc' = "raised"
              ELSE ret' = "200" /\ pc' = "done"
    /\ UNCHANGED <<client, content, caller_name, project_data, trace, response, escaped,
                   dirs>>

Next ==
    \/ SaveRaw
    \/ Method1
    \/ Method2
    \/ Method3
    \/ Check
    \/ Save
    \/ Except
    \/ Moonshot
    \/ OpenRouterSend
    \/ Alibaba
    \/ AppParse
    \/ AppSave

Spec == Init /\ [][Next]_vars

\* ------------------------------------------------------------ the claims

Attempted(k) == \E i \in 1..Len(trace) : trace[i].stage = k

\* what method k gave
Record(k) == trace[CHOOSE i \in 1..Len(trace) : trace[i].stage = k]

OpenRouterDone == client = "openrouter" /\ pc = "done"

\* the files written besides the copy of the raw content
ProjectFiles == SelectSeq(writes, LAMBDA w : w.path # <<"raw_content.txt">>)

\* C1, as the specification words it: for every raw output the routine
\* returns a descriptor; it never returns a failure value and never raises.
C1_AlwaysADescriptor == OpenRouterDone => (ret = "True" /\ ~escaped)

\* C1, amended: save_project_files lets no exception out and returns True or
\* False; it returns True exactly when the methods gave a non-empty
\* project_data and nothing raised while the files were written, and then
\* project_data is an object.  There is no fourth stage: when no method gives
\* a result, or an exception is caught, the value returned is False.
C1_TrueOrFalseNeverRaises ==
    OpenRouterDone =>
        /\ ~escaped
        /\ ret \in {"True", "False"}
        /\ (ret = "True") <=> (raised = "none" /\ Truthy(project_data))
        /\ (ret = "True") => project_data.t = "obj"

\* C1: a reply of plain prose has been handled: no method gave a result and
\* False came back
C1_Witness ==
    /\ OpenRouterDone /\ content \in Proses
    /\ Attempted(2) /\ Attempted(3) /\ ~Truthy(project_data) /\ ret = "False"

\* C2: a reply that is a well-formed document of the descriptor shape comes
\* back as that descriptor, unchanged, through Method 1.
C2_WellFormedRoundTrip ==
    (OpenRouterDone /\ content \in Docs) =>
        /\ ret = "True" /\ raised = "none"
        /\ Attempted(1) /\ Record(1).ok
        /\ project_data = JsonLoads(content).val

\* the example of the specification: one file, cut after the last string
ExampleCut ==
    LET t == Dumps(Descriptor(<<"demo">>, FirstEntries(1)), FALSE, <<" ">>, 0)
    IN  SubSeq(t, 1, Len(t) - Len(<<"}", "]", "}">>))

\* C3: on the example the repair of Method 1 gives a text that parses to the
\* document with its one file: the object is closed, then the array, then the
\* outer object.
C3_ExampleRepaired ==
    (OpenRouterDone /\ content = ExampleCut) =>
        /\ JsonLoads(Repair(content)).val = Descriptor(<<"demo">>, FirstEntries(1))
        /\ project_data = Descriptor(<<"demo">>, FirstEntries(1))
        /\ ret = "True"

\* the text ends inside a string that is the value of a key
CutInValue(t) ==
    LET q == LastIndex(t, "\"")
    IN  /\ Count(t, "\"") % 2 = 1
        /\ q > 2
        /\ t[q - 1] = ":" \/ (t[q - 1] = " " /\ t[q - 2] = ":")

\* C4: a well-formed document cut in the middle of a string value comes back
\* as a descriptor that keeps every file complete before the cut, in order,
\* the repaired text having as many closers as openers.
C4_CompleteFilesKept ==
    (OpenRouterDone /\ content \in Truncated /\ CutInValue(content)) =>
        LET n == Count(content, "}")
            fixed == Repair(content)
        IN  /\ Count(fixed, "{") = Count(fixed, "}")
            /\ Count(fixed, "[") = Count(fixed, "]")
            /\ ret = "True"
            /\ project_data.t = "obj"
            /\ HasKey(project_data, <<"files">>)
            /\ Item(project_data, <<"files">>).t = "arr"
            /\ Len(Item(project_data, <<"files">>).v) >= n
            /\ SubSeq(Item(project_data, <<"files">>).v, 1, n) = FirstEntries(n)

\* C5: prose, then a fenced json block that holds a valid descriptor: that
\* descriptor comes back, found by Method 2, whatever the prose around it.
C5_FencedDescriptor ==
    (OpenRouterDone /\ content \in Fenced) =>
        /\ ret = "True"
        /\ Attempted(2) /\ Record(2).ok
        /\ project_data = JsonLoads(Blocks(content)[1]).val

\* C6: a reply that holds the files array only comes back, by Method 3, as the
\* descriptor of the caller's project name and of the parsed array.
C6_FilesOnlyUnderCallerName ==
    (OpenRouterDone /\ content \in FilesOnly) =>
        LET array == JsonLoads(SubSeq(content, IndexFrom(content, 1, "["), Len(content)))
        IN  /\ ret = "True"
            /\ Attempted(3) /\ Record(3).ok
            /\ project_data = Descriptor(caller_name, array.val.v)

\* the descriptor of the fallback: one file README.md that holds the text
Readme(name, text) == Descriptor(name, <<Entry(<<"README.md">>, text)>>)

C8_Idempotent ==
    (OpenRouterDone /\ ret = "True") =>
        Recover(Dumps(project_data, FALSE, <<" ">>, 0))
            = [raised |-> "none", val |-> project_data]

\* C9: the methods run in order, a method runs exactly when every method
\* before it gave no parsed result, and a text that does not parse after its
\* repair never ends the routine: the next method is tried.
C9_StagesInOrder ==
    OpenRouterDone =>
        /\ \A k \in 2..3 :
              Attempted(k) <=> \A j \in 1..(k - 1) : Attempted(j) /\ ~Record(j).ok
        /\ \A i, j \in 1..Len(trace) : i < j => trace[i].stage < trace[j].stage
        /\ (Attempted(1) /\ ~Record(1).ok) => Attempted(2)

\* the repaired text of block b parses
Parses(b) == JsonLoads(Repair(b)).ok

\* C10: Method 2 takes the fenced blocks in the order of the text, repairs
\* each as Method 1 does, and keeps the parse of the first block that parses:
\* no block before it parses, a block before it that does not parse does not
\* stop the loop, and no block after it changes the result.
C10_FirstBlockThatParses ==
    (client = "openrouter" /\ Attempted(2)) =>
        LET bs == Blocks(content)
            good == {i \in 1..Len(bs) : Parses(bs[i])}
        IN  /\ content \in BlockTexts =>
                  \E xs \in SeqsUpTo(BlockBodies, MaxBlocks) :
                      content = JoinBlocks(xs, 1) /\ bs = xs
            /\ IF good = {}
               THEN ~Record(2).ok /\ Record(2).tried = Len(bs)
               ELSE /\ Record(2).ok
                    /\ Record(2).tried = Min(good)
                    /\ Record(2).val = JsonLoads(Repair(bs[Min(good)])).val

\* C10: of two blocks the first did not parse and the second was kept
C10_Witness ==
    /\ client = "openrouter" /\ Attempted(2)
    /\ Len(Blocks(content)) = 2
    /\ ~Parses(Blocks(content)[1]) /\ Parses(Blocks(content)[2])
    /\ Record(2).ok /\ Record(2).tried = 2

\* the text has a "files": [ marker and a "]" after it
HasFilesBody(t) == FilesMarker(t) # 0 /\ LastIndex(t, "]") > FilesMarker(t)

\* the text between the "[" of the first marker and the last "]" of the text
FilesBody(t) == SubSeq(t, FilesMarker(t) + 1, LastIndex(t, "]") - 1)

\* C11: Method 3 parses the text between the "files": [ marker and the last
\* "]" of the whole text as an array, without repair; when that parses it
\* gives the descriptor of the project_name found in the text, or of the
\* default name, and of the parsed array; otherwise it gives nothing and the
\* call ends with the fallback descriptor of a fourth stage.
C11_FilesBodyParsedAlone ==
    (client = "openrouter" /\ Attempted(3)) =>
        LET parsed == JsonLoads(<<"[">> \o FilesBody(content) \o <<"]">>)
            name == IF NameMatch(content).found THEN NameMatch(content).group
                    ELSE DefaultName
        IN  IF HasFilesBody(content) /\ parsed.ok
            THEN Record(3).ok /\ Record(3).val = Descriptor(name, parsed.val.v)
            ELSE /\ ~Record(3).ok
                 /\ pc = "done" =>
                       /\ ret = "True"
                       /\ Get(project_data, <<"files">>, None)
                              = Arr(<<Entry(<<"README.md">>, content)>>)

\* d is a descriptor: an object whose files is an array of objects that each
\* have a path and a content, both strings
WellShaped(d) ==
    /\ d.t = "obj"
    /\ HasKey(d, <<"files">>)
    /\ Item(d, <<"files">>).t = "arr"
    /\ \A i \in 1..Len(Item(d, <<"files">>).v) :
           LET e == Item(d, <<"files">>).v[i]
           IN  /\ e.t = "obj"
               /\ HasKey(e, <<"path">>) /\ Item(e, <<"path">>).t = "str"
               /\ HasKey(e, <<"content">>) /\ Item(e, <<"content">>).t = "str"

\* C12: what a method keeps as its parsed result is a descriptor, and when
\* the call succeeds its project_data is a descriptor whose files were
\* written in their order; no method keeps a value of another shape.
C12_OnlyDescriptorsAccepted ==
    client = "openrouter" =>
        /\ \A k \in 1..3 : (Attempted(k) /\ Record(k).ok) => WellShaped(Record(k).val)
        /\ (pc = "done" /\ ret = "True") =>
              /\ WellShaped(project_data)
              /\ Len(ProjectFiles) = Len(Item(project_data, <<"files">>).v)
              /\ \A i \in 1..Len(ProjectFiles) :
                     /\ Str(ProjectFiles[i].path)
                            = Item(Item(project_data, <<"files">>).v[i], <<"path">>)
                     /\ Str(ProjectFiles[i].text)
                            = Item(Item(project_data, <<"files">>).v[i], <<"content">>)

\* C13: the repair leaves complete strings alone.  Of a block that Method 2
\* tried: when its quotes pair up the repair adds no quote, and when the
\* block is valid JSON as it stands (every string complete, no trailing
\* comma, every opener closed) the repaired text is the block itself.
C13_CompleteStringsUntouched ==
    (client = "openrouter" /\ Attempted(2)) =>
        \A i \in 1..Record(2).tried :
            LET b == Blocks(content)[i]
            IN  /\ Count(b, "\"") % 2 = 0 => Count(Repair(b), "\"") = Count(b, "\"")
                /\ JsonLoads(b).ok => Repair(b) = b

\* the copy of the raw content that save_project_files keeps
RawCopy == [dir |-> <<>>, path |-> <<"raw_content.txt">>, text |-> content]

\* the files written under the directory of a project
Generated == SelectSeq(writes, LAMBDA w : w.dir \notin {<<>>, <<".">>})

Models == {"gemini", "moonshot", "qwen", "qwen235"}

\* C17: for each model that can be selected, a reply whose content is a
\* well-formed document of the descriptor shape ends the request with
\* success, one file written per entry under the project directory, in the
\* order of the entries, and as many files counted as there are entries.
C17_EveryModelWritesTheFiles ==
    (client \in Models /\ content \in Docs /\ pc = "done") =>
        LET files == Item(JsonLoads(content).val, <<"files">>).v
        IN  /\ ret = "200"
            /\ Generated = [i \in 1..Len(files) |->
                              [dir |-> caller_name,
                               path |-> Item(files[i], <<"path">>).v,
                               text |-> Item(files[i], <<"content">>).v]]

\* ------------------- two calls of save_project_files at the same time

Savers == {"first", "second"}

\* a reply that holds the files array fl only
FilesText(fl) == <<"\"", "files", "\"", ":", " ">> \o Dumps(Arr(fl), FALSE, <<" ">>, 0)

\* the first two files with their contents exchanged
SwappedEntries == <<Entry(Paths[1], Texts[2]), Entry(Paths[2], Texts[1])>>

\* the replies given to the two calls
SaveReplies ==
    { FilesText(FirstEntries(2)),
      FilesText(SwappedEntries),
      <<Fence, "json", "\n">> \o Dumps(Descriptor(<<"demo">>, FirstEntries(1)), FALSE, <<" ">>, 0)
          \o <<"\n", Fence>>,
      <<"hello">> }

\* open(path, 'w') and write: the file at key k holds text t
Written(d, k, t) == [x \in DOMAIN d \cup {k} |-> IF x = k THEN t ELSE d[x]]

\* the name of the raw copy: the time of the call, to the second
RawName(c) == <<"raw_content_", IF same_second \/ c = "first" THEN "t1" ELSE "t2", ".txt">>

\* what the call does after its copy of the raw content: the files it writes,
\* in order, and the value it returns
Planned(text, r) ==
    IF r.raised # "none" \/ ~Truthy(r.val) THEN [files |-> <<>>, ret |-> "False"]
    ELSE LET o == SaveOutcome(r.val)
         IN  [files |-> o.files, ret |-> IF o.raised = "none" THEN "True" ELSE "False"]

SaveInit ==
    /\ NoReply /\ NoConfig /\ NoRequests /\ NoGenerate
    /\ disk = <<>>
    /\ same_second \in BOOLEAN
    /\ saver \in [Savers -> {[pc |-> "debug", content |-> t, files |-> <<>>, at |-> 1,
                              ret |-> "pending"] : t \in SaveReplies}]

\* lines 143-148: the raw content is written to raw_content_<time>.txt
SaveRawOf(c) ==
    /\ saver[c].pc = "debug"
    /\ disk' = Written(disk, <<<<>>, RawName(c)>>, saver[c].content)
    /\ saver' = [saver EXCEPT ![c].pc = "parse"]
    /\ UNCHANGED <<same_second, reply_vars, config_vars, race_vars, request_vars>>

\* lines 150-236: the three methods, which touch no file
ParseOf(c) ==
    /\ saver[c].pc = "parse"
    /\ \E plan \in {Planned(saver[c].content, Recover(saver[c].content))} :
           saver' = [saver EXCEPT ![c].pc = "save", ![c].files = plan.files,
                                  ![c].ret = plan.ret]
    /\ UNCHANGED <<disk, same_second, reply_vars, config_vars, race_vars, request_vars>>

\* lines 246-255: one file of the project is written
WriteOf(c) ==
    /\ saver[c].pc = "save"
    /\ saver[c].at <= Len(saver[c].files)
    /\ LET w == saver[c].files[saver[c].at]
       IN  disk' = Written(disk, <<w.dir, w.path>>, w.text)
    /\ saver' = [saver EXCEPT ![c].at = @ + 1]
    /\ UNCHANGED <<same_second, reply_vars, config_vars, race_vars, request_vars>>

\* the call returns
ReturnOf(c) ==
    /\ saver[c].pc = "save"
    /\ saver[c].at > Len(saver[c].files)
    /\ saver' = [saver EXCEPT ![c].pc = "done"]
    /\ UNCHANGED <<disk, same_second, reply_vars, config_vars, race_vars, request_vars>>

SaveNext ==
    \/ \E c \in Savers : SaveRawOf(c)
    \/ \E c \in Savers : ParseOf(c)
    \/ \E c \in Savers : WriteOf(c)
    \/ \E c \in Savers : ReturnOf(c)

SaveRaceSpec == SaveInit /\ [][SaveNext]_vars

RECURSIVE WrittenAll(_, _, _)
\* the disk d after the writes ws from the i-th on
WrittenAll(d, ws, i) ==
    IF i > Len(ws) THEN d
    ELSE WrittenAll(Written(d, <<ws[i].dir, ws[i].path>>, ws[i].text), ws, i + 1)

\* the disk d after call c has run on it with no other call running
RunAlone(d, c) ==
    WrittenAll(Written(d, <<<<>>, RawName(c)>>, saver[c].content),
               Planned(saver[c].content, Recover(saver[c].content)).files, 1)

\* C15: two calls of save_project_files that run at the same time do not
\* interfere: each returns what it returns when it runs alone, and the disk
\* holds what the two calls leave when one runs after the other.
C15_ConcurrentCallsIndependent ==
    (saver # <<>> /\ \A c \in Savers : saver[c].pc = "done") =>
        /\ \A c \in Savers :
               saver[c].ret = Planned(saver[c].content, Recover(saver[c].content)).ret
        /\ \/ disk = RunAlone(RunAlone(<<>>, "first"), "second")
           \/ disk = RunAlone(RunAlone(<<>>, "second"), "first")

\* ------------------------------------------------------- ConfigManager

ConfigFiles == {"API-KEYS.json", "SETTINGS.json", "path-history.json"}

default_api_keys == [openrouter_api_key |-> "", moonshot_api_key |-> ""]

default_settings ==
    [selected_model |-> "kimi", max_tokens |-> 100000, temperature |-> "0.6",
     output_dir |-> "output"]

default_paths == [recent_paths |-> <<>>, max_paths |-> 20]

\* data.get("max_paths", 20)
DefaultMaxPaths == 20

\* the max_paths of a path-history.json that was there before the start
StoredMaxPaths == 2

\* d.get(k, default) and d[k] = v of a dict read from a file; json.dump and
\* json.load give back the strings, numbers and lists of strings kept here
DictGet(d, k, default) == IF k \in DOMAIN d THEN d[k] ELSE default
DictSet(d, k, v) == [x \in DOMAIN d \cup {k} |-> IF x = k THEN v ELSE d[x]]

\* _load_json: the dict in the file, {} when the file cannot be read
LoadJson(file, data) == IF file \in existing THEN data ELSE <<>>

\* x in paths, paths.remove(x): the first x goes
PathIn(paths, x) == \E i \in 1..Len(paths) : paths[i] = x
PathRemoved(paths, x) ==
    LET at == Min({i \in 1..Len(paths) : paths[i] = x})
    IN  [i \in 1..(Len(paths) - 1) |-> IF i < at THEN paths[i] ELSE paths[i + 1]]

\* paths[:n]
Sliced(paths, n) == SubSeq(paths, 1, IF n >= 0 THEN Min({n, Len(paths)}) ELSE Len(paths) + n)

\* the guard without its second half: "output" is taken as a path
SkippedEmptyOnly(path) == path = ""

\* if not path or path == "output": return
Skipped(path) == path = "" \/ path = "output"

\* lines 111-125 without the removal of the path already there
AddedPathNoRemove(data, path) ==
    LET paths == DictGet(data, "recent_paths", <<>>)
        max_paths == DictGet(data, "max_paths", DefaultMaxPaths)
    IN  DictSet(data, "recent_paths", Sliced(<<path>> \o paths, max_paths))

\* lines 111-125: the dict that add_path_to_history saves
AddedPath(data, path) ==
    LET paths == DictGet(data, "recent_paths", <<>>)
        max_paths == DictGet(data, "max_paths", DefaultMaxPaths)
        others == IF PathIn(paths, path) THEN PathRemoved(paths, path) ELSE paths
    IN  DictSet(data, "recent_paths", Sliced(<<path>> \o others, max_paths))

\* lines 130-135: the dict that remove_path_from_history saves
RemovedPath(data, path) ==
    DictSet(data, "recent_paths", PathRemoved(DictGet(data, "recent_paths", <<>>), path))

\* the arguments of the calls
KeyNames == {"openrouter_api_key", "moonshot_api_key"}
KeyValues == {"", "sk-1"}
SettingNames == {"selected_model", "output_dir"}
SettingValues == {"gemini", "p1"}
PathArgs == {"", "output", "p1", "p2", "p3"}

\* the path-history.json found at the start, where there is one
StoredHistories == {[recent_paths |-> <<>>, max_paths |-> StoredMaxPaths]}

\* the state after ConfigManager(): the files that were missing hold their
\* defaults, a file that was there is left as it was
ConfigInit ==
    /\ NoReply /\ NoSavers /\ NoRequests /\ NoGenerate
    /\ existing = ConfigFiles
    /\ api_keys = default_api_keys
    /\ settings = default_settings
    /\ history \in {default_paths} \cup StoredHistories
    /\ called = [op |-> "__init__", name |-> "", value |-> "", before |-> <<>>]

save_api_key(key_name, key_value) ==
    /\ api_keys' = DictSet(LoadJson("API-KEYS.json", api_keys), key_name, key_value)
    /\ existing' = existing \cup {"API-KEYS.json"}
    /\ called' = [op |-> "save_api_key", name |-> key_name, value |-> key_value,
                  before |-> api_keys]
    /\ UNCHANGED <<settings, history, reply_vars, save_vars, race_vars, request_vars>>

save_setting(setting_name, value) ==
    /\ settings' = DictSet(LoadJson("SETTINGS.json", settings), setting_name, value)
    /\ existing' = existing \cup {"SETTINGS.json"}
    /\ called' = [op |-> "save_setting", name |-> setting_name, value |-> value,
                  before |-> settings]
    /\ UNCHANGED <<api_keys, history, reply_vars, save_vars, race_vars, request_vars>>

add_path_to_history(path) ==
    /\ IF Skipped(path)
       THEN UNCHANGED <<history, existing>>
       ELSE /\ history' = AddedPath(LoadJson("path-history.json", history), path)
            /\ existing' = existing \cup {"path-history.json"}
    /\ called' = [op |-> "add_path_to_history", name |-> path, value |-> "",
                  before |-> history]
    /\ UNCHANGED <<api_keys, settings, reply_vars, save_vars, race_vars, request_vars>>

remove_path_from_history(path) ==
    /\ IF PathIn(DictGet(LoadJson("path-history.json", history), "recent_paths", <<>>), path)
       THEN /\ history' = RemovedPath(LoadJson("path-history.json", history), path)
            /\ existing' = existing \cup {"path-history.json"}
       ELSE UNCHANGED <<history, existing>>
    /\ called' = [op |-> "remove_path_from_history", name |-> path, value |-> "",
                  before |-> history]
    /\ UNCHANGED <<api_keys, settings, reply_vars, save_vars, race_vars, request_vars>>

\* clear_all_data calls _initialize_files, which writes the defaults to the
\* files that do not exist
clear_all_data ==
    /\ api_keys' = IF "API-KEYS.json" \in existing THEN api_keys ELSE default_api_keys
    /\ settings' = IF "SETTINGS.json" \in existing THEN settings ELSE default_settings
    /\ history' = IF "path-history.json" \in existing THEN history ELSE default_paths
    /\ existing' = ConfigFiles
    /\ called' = [op |-> "clear_all_data", name |-> "", value |-> "",
                  before |-> <<api_keys, settings, history>>]
    /\ UNCHANGED <<reply_vars, save_vars, race_vars, request_vars>>

ConfigNext ==
    \/ \E n \in KeyNames, v \in KeyValues : save_api_key(n, v)
    \/ \E n \in SettingNames, v \in SettingValues : save_setting(n, v)
    \/ \E p \in PathArgs : add_path_to_history(p)
    \/ \E p \in PathArgs : remove_path_from_history(p)
    \/ clear_all_data

ConfigSpec == ConfigInit /\ [][ConfigNext]_vars

\* C16: after clear_all_data the API keys, the settings and the path history
\* are the defaults, whatever was stored before.
C16_ClearRestoresDefaults ==
    called.op = "clear_all_data" =>
        /\ api_keys = default_api_keys
        /\ settings = default_settings
        /\ DictGet(history, "recent_paths", <<>>) = default_paths.recent_paths

\* the entries of paths other than x, in their order
Without(paths, x) == SelectSeq(paths, LAMBDA y : y # x)

\* a is the beginning of b
IsPrefix(a, b) == Len(a) <= Len(b) /\ SubSeq(b, 1, Len(a)) = a

\* C18: after add_path_to_history(p) with p not empty and not "output", p is
\* the first recent path and occurs once, the paths stored before follow in
\* the order they had, and entries are dropped from the end only, as many as
\* exceed max_paths; for "" and for "output" the history is left as it was.
C18_AddedPathComesFirst ==
    called.op = "add_path_to_history" =>
        LET p == called.name
            before == DictGet(called.before, "recent_paths", <<>>)
            now == DictGet(history, "recent_paths", <<>>)
            max_paths == DictGet(called.before, "max_paths", DefaultMaxPaths)
        IN  IF p \in {"", "output"} THEN history = called.before
            ELSE /\ now # <<>> /\ now[1] = p
                 /\ Cardinality({i \in 1..Len(now) : now[i] = p}) = 1
                 /\ IsPrefix(Without(now, p), Without(before, p))
                 /\ Len(now) = Min({max_paths, 1 + Len(Without(before, p))})
                 /\ DictGet(history, "max_paths", DefaultMaxPaths) = max_paths

\* C18: a third path was added to a history that was full with two: it came
\* first and the oldest path was dropped
C18_Witness ==
    /\ called.op = "add_path_to_history" /\ called.name = "p3"
    /\ called.before = [recent_paths |-> <<"p2", "p1">>, max_paths |-> StoredMaxPaths]
    /\ history.recent_paths = <<"p3", "p2">>

\* C19: whatever calls of add_path_to_history and remove_path_from_history
\* were made, the recent paths hold no path twice, hold neither "" nor
\* "output", and are at most max_paths, which is at most 20.
C19_HistoryWellFormed ==
    LET now == DictGet(history, "recent_paths", <<>>)
        max_paths == DictGet(history, "max_paths", DefaultMaxPaths)
    IN  /\ \A i, j \in 1..Len(now) : i # j => now[i] # now[j]
        /\ \A i \in 1..Len(now) : now[i] \notin {"", "output"}
        /\ Len(now) <= max_paths
        /\ max_paths <= DefaultMaxPaths

\* C19: after adds that filled the history of a fresh directory with three
\* paths, one of them was removed
C19_Witness ==
    /\ called.op = "remove_path_from_history" /\ called.name = "p1"
    /\ called.before = [recent_paths |-> <<"p3", "p1", "p2">>, max_paths |-> 20]
    /\ history = [recent_paths |-> <<"p3", "p2">>, max_paths |-> 20]

\* ------------------------- requests that update the configuration together

Threads == {"t1", "t2"}

\* the calls a request makes: [op, name, value]
Calls ==
    {[op |-> "save_api_key", name |-> n, value |-> v] : n \in KeyNames, v \in KeyValues}
    \cup {[op |-> "save_setting", name |-> n, value |-> v] :
              n \in SettingNames, v \in SettingValues}
    \cup {[op |-> "add_path_to_history", name |-> p, value |-> ""] : p \in PathArgs}

\* the file that a call reads and writes, and the dict in it
FileOf(op) ==
    CASE op = "save_api_key" -> "API-KEYS.json"
      [] op = "save_setting" -> "SETTINGS.json"
      [] OTHER -> "path-history.json"
StoredIn(op) ==
    CASE op = "save_api_key" -> api_keys
      [] op = "save_setting" -> settings
      [] OTHER -> history

\* the dict that the call saves when it loaded data
Updated(c, data) ==
    IF c.op = "add_path_to_history" THEN AddedPath(data, c.name)
    ELSE DictSet(data, c.name, c.value)

RaceInit ==
    /\ NoReply /\ NoSavers /\ NoGenerate
    /\ existing = ConfigFiles
    /\ api_keys = default_api_keys
    /\ settings = default_settings
    /\ history = default_paths
    /\ called = [op |-> "none"]
    /\ thread = [t \in Threads |-> [pc |-> "idle", op |-> "none", name |-> "",
                                    value |-> "", data |-> <<>>]]

\* a request thread enters a call of config_manager
Enter(t) ==
    /\ thread[t].pc = "idle"
    /\ \E c \in Calls :
           thread' = [thread EXCEPT ![t] =
                         [pc |-> IF c.op = "add_path_to_history" /\ Skipped(c.name)
                                 THEN "returned" ELSE "load",
                          op |-> c.op, name |-> c.name, value |-> c.value, data |-> <<>>]]
    /\ UNCHANGED <<config_vars, reply_vars, save_vars, request_vars>>

\* _load_json: a file that another thread has opened for writing and not yet
\* written gives {}
Load(t) ==
    /\ thread[t].pc = "load"
    /\ thread' = [thread EXCEPT ![t].pc = "open",
                                ![t].data = LoadJson(FileOf(thread[t].op),
                                                     StoredIn(thread[t].op))]
    /\ UNCHANGED <<config_vars, reply_vars, save_vars, request_vars>>

\* the dict in the file of the call becomes d
Store(op, d) ==
    /\ api_keys' = IF op = "save_api_key" THEN d ELSE api_keys
    /\ settings' = IF op = "save_setting" THEN d ELSE settings
    /\ history' = IF op = "add_path_to_history" THEN d ELSE history

\* _save_json, open(filepath, 'w'): the file is emptied
Open(t) ==
    /\ thread[t].pc = "open"
    /\ Store(thread[t].op, <<>>)
    /\ thread' = [thread EXCEPT ![t].pc = "dump"]
    /\ UNCHANGED <<existing, called, reply_vars, save_vars, request_vars>>

\* _save_json, json.dump: the dict loaded, with the update, is written
Dump(t) ==
    /\ thread[t].pc = "dump"
    /\ Store(thread[t].op, Updated(thread[t], thread[t].data))
    /\ thread' = [thread EXCEPT ![t].pc = "returned"]
    /\ UNCHANGED <<existing, called, reply_vars, save_vars, request_vars>>

RaceNext ==
    \/ \E t \in Threads : Enter(t)
    \/ \E t \in Threads : Load(t)
    \/ \E t \in Threads : Open(t)
    \/ \E t \in Threads : Dump(t)

ConfigRaceSpec == RaceInit /\ [][RaceNext]_vars

\* the update of call c is in the file
Present(c) ==
    CASE c.op = "save_api_key" -> c.name \in DOMAIN api_keys /\ api_keys[c.name] = c.value
      [] c.op = "save_setting" -> c.name \in DOMAIN settings /\ settings[c.name] = c.value
      [] OTHER -> Skipped(c.name) \/ PathIn(DictGet(history, "recent_paths", <<>>), c.name)

\* C20: when two calls of the same kind for different names (or paths) have
\* run in two request threads and both have returned, both updates are in
\* the stored file.
C20_NoLostUpdate ==
    ( /\ thread # <<>>
      /\ \A t \in Threads : thread[t].pc = "returned"
      /\ thread["t1"].op = thread["t2"].op
      /\ thread["t1"].name # thread["t2"].name )
    => \A t \in Threads : Present(thread[t])

\* -------------------------------------------- the reply of Kimi in generate_code

\* generate_code answered that it could not read the response of the model
Rejected == ret \in {"500 Invalid response format", "500 Failed to parse"}

\* C24: every response that MoonshotClient.send_prd_request returns is
\* accepted by the parser of generate_code: once generate_code has parsed the
\* response of Kimi, the request has not ended in "Invalid response format
\* from AI" nor in "Failed to parse AI response".
C24_KimiResponseAccepted ==
    (client = "moonshot" /\ pc \in {"app_save", "raised", "done"} /\ response # <<>>)
    => ~Rejected

\* ----------------------------------------- generate_code, from the form on

\* request.form.get('apiKey') of a form without the field
NoValue == "<None>"

\* the greatest number of keys of the server
MaxKeys == 2

KeyNo == <<"key-1", "key-2", "key-3", "key-4">>

\* the lists of keys the server can hold
KeyLists == {[i \in 1..n |-> KeyNo[i]] : n \in 0..MaxKeys}

\* s.strip(chars), of a text whose atoms that hold a character of chars are
\* that character alone
RECURSIVE Stripped(_, _)
Stripped(s, chars) ==
    IF s # <<>> /\ Head(s) \in chars THEN Stripped(Tail(s), chars)
    ELSE IF s # <<>> /\ s[Len(s)] \in chars THEN Stripped(SubSeq(s, 1, Len(s) - 1), chars)
    ELSE s

\* s.replace(a, b)
Replaced(s, a, b) == [i \in 1..Len(s) |-> IF s[i] = a THEN b ELSE s[i]]

DigitAtoms == <<"0", "1", "2", "3", "4", "5", "6", "7", "8", "9">>

IsDigit(a) == \E d \in 1..Len(DigitAtoms) : DigitAtoms[d] = a

DigitOf(a) == (CHOOSE d \in 1..Len(DigitAtoms) : DigitAtoms[d] = a) - 1

RECURSIVE Decimal(_)
Decimal(ds) ==
    IF ds = <<>> THEN 0
    ELSE Len(DigitAtoms) * Decimal(SubSeq(ds, 1, Len(ds) - 1)) + DigitOf(ds[Len(ds)])

\* the digits of a text that int() reads: white space around them and one
\* sign before them are allowed
Digits(s) ==
    LET t == Stripped(s, {" ", "\n"})
    IN  IF t # <<>> /\ Head(t) \in {"-", "+"} THEN Tail(t) ELSE t

\* int(s) of a text: [ok, val], ok FALSE for ValueError
IntOf(s) ==
    LET ds == Digits(s)
    IN  IF ds # <<>> /\ \A i \in 1..Len(ds) : IsDigit(ds[i])
        THEN [ok |-> TRUE,
              val |-> IF Head(Stripped(s, {" ", "\n"})) = "-" THEN 0 - Decimal(ds)
                      ELSE Decimal(ds)]
        ELSE [ok |-> FALSE, val |-> 0]

\* the models served with the keys of the server, whatever the model else
BuiltInQwenOnly(model) == model = "qwen"

\* the models served with the keys of the server
BuiltIn(model) == model \in {"qwen", "qwen235"}

\* manual key selection: the key at the index, the first key when the index
\* is no number
ChosenKey(keys, parsed) ==
    IF ~parsed.ok THEN [status |-> "ok", key |-> keys[1]]
    ELSE IF 0 <= parsed.val /\ parsed.val < Len(keys)
    THEN [status |-> "ok", key |-> keys[parsed.val + 1]]
    ELSE [status |-> "400 Invalid key index", key |-> ""]

\* "Check if API key is needed": [status, key]
KeyChecked(model, supplied, index, keys) ==
    IF BuiltIn(model)
    THEN IF keys = <<>> THEN [status |-> "400 Alibaba API keys not configured", key |-> supplied]
         ELSE ChosenKey(keys, IntOf(index))
    ELSE IF supplied \in {NoValue, "", "built-in"}
    THEN [status |-> "400 Please provide API key", key |-> supplied]
    ELSE [status |-> "ok", key |-> supplied]

\* output_dir.strip('"').strip("'").strip().replace('/', '\\')
Cleaned(dir) ==
    Replaced(Stripped(Stripped(Stripped(dir, {"\""}), {"'"}), {" ", "\n"}), "/", "\\")

\* '..' in output_dir, for the check that lets every directory pass
ContainsDotDotNever(dir) == FALSE

\* '..' in output_dir
ContainsDotDot(dir) == \E i \in 1..(Len(dir) - 1) : dir[i] = "." /\ dir[i + 1] = "."

\* "Clean and validate the output directory path": [status, dir]
OutputDirChecked(dir) ==
    IF ContainsDotDot(Cleaned(dir))
    THEN [status |-> "400 Invalid output directory path", dir |-> Cleaned(dir)]
    ELSE [status |-> "ok", dir |-> IF Cleaned(dir) = <<>> THEN <<"output">> ELSE Cleaned(dir)]

\* the uploaded files that are read: those with a file name
Named(files) == SelectSeq(files, LAMBDA f : f.filename # <<>>)

\* os.path.splitext(filename)[0]
Stem(filename) ==
    LET dots == {i \in 2..Len(filename) : filename[i] = "."}
    IN  IF dots = {} THEN filename ELSE SubSeq(filename, 1, Max(dots) - 1)

\* name.replace(' ', '_').replace('-', '_')
Underscored(name) == Replaced(Replaced(name, " ", "_"), "-", "_")

\* "=== File: name ===\n" and the content of each file read, joined by "\n\n"
RECURSIVE FilesContent(_, _)
FilesContent(files, i) ==
    IF i > Len(files) THEN <<>>
    ELSE (IF i = 1 THEN <<>> ELSE <<"\n", "\n">>)
         \o <<"=== File: ">> \o files[i].filename \o <<" ===", "\n">> \o files[i].text
         \o FilesContent(files, i + 1)

\* full_prd_content: <<>> when there is neither a file read nor pasted text
FullPrdContent(files, prd_text) ==
    IF Named(files) # <<>> THEN FilesContent(Named(files), 1) ELSE prd_text

\* re.search(r'#\s*(?:Project|App|Application|System)(?:\s*Name)?:\s*(.+)', text),
\* for a text whose name is followed by no white space: found, group(1)
PrdNameMatch(text) ==
    LET AfterWord(i) == SkipWs(text, i + 1) + 1
        Colon(i) == IF SkipWs(text, AfterWord(i)) <= Len(text)
                       /\ text[SkipWs(text, AfterWord(i))] = "Name"
                    THEN SkipWs(text, AfterWord(i)) + 1 ELSE AfterWord(i)
        Start(i) == SkipWs(text, Colon(i) + 1)
        at == {i \in 1..Len(text) :
                 /\ text[i] = "#"
                 /\ SkipWs(text, i + 1) <= Len(text)
                 /\ text[SkipWs(text, i + 1)] \in {"Project", "App", "Application", "System"}
                 /\ Colon(i) <= Len(text) /\ text[Colon(i)] = ":"
                 /\ Start(i) <= Len(text)}
        eol == {j \in Start(Min(at))..Len(text) : text[j] = "\n"}
    IN  IF at = {} THEN [found |-> FALSE, group |-> <<>>]
        ELSE [found |-> TRUE,
              group |-> SubSeq(text, Start(Min(at)),
                               IF eol = {} THEN Len(text) ELSE Min(eol) - 1)]

\* datetime.now().strftime('%Y%m%d_%H%M%S')
Timestamp == "20250723_120000"

\* project_name: from the first file read, else from the content, else from
\* the time
ProjectName(files, prd_text) ==
    IF Named(files) # <<>> THEN Underscored(Stem(Named(files)[1].filename))
    ELSE IF PrdNameMatch(prd_text).found
    THEN Underscored(Stripped(PrdNameMatch(prd_text).group, {" ", "\n"}))
    ELSE <<"generated_project_", Timestamp>>

\* "Initialize appropriate client based on model selection"
ClientFor(model) ==
    CASE model = "kimi" -> "moonshot"
      [] model \in {"qwen", "qwen235"} -> "alibaba"
      [] OTHER -> "openrouter"

\* the prompt a client builds around the content
Prompt(prd) == <<"Based on the following PRD", "\n">> \o prd \o <<"\n", "Format your response as JSON">>

\* the tokenizer gives one token for each atom
estimate_tokens(text) == Len(text)

\* the counts of token_info that send_prd_request (send_completion for
\* Alibaba) returns with a reply, named as each client names them
TokenInfo(c, usage, input_tokens) ==
    CASE c = "alibaba" ->
           [k \in {"input_tokens", "output_tokens", "total_tokens"} |->
              CASE k = "input_tokens" -> DictGet(usage, "prompt_tokens", 0)
                [] k = "output_tokens" -> DictGet(usage, "completion_tokens", 0)
                [] OTHER -> DictGet(usage, "total_tokens", 0)]
      [] c = "moonshot" ->
           [k \in {"actual_input", "output", "total"} |->
              CASE k = "actual_input" -> DictGet(usage, "prompt_tokens", input_tokens)
                [] k = "output" -> DictGet(usage, "completion_tokens", 0)
                [] OTHER -> DictGet(usage, "total_tokens", input_tokens)]
      [] OTHER ->
           [k \in {"estimated_input", "actual_input", "output", "total"} |->
              CASE k = "estimated_input" -> input_tokens
                [] k = "actual_input" -> DictGet(usage, "prompt_tokens", 0)
                [] k = "output" -> DictGet(usage, "completion_tokens", 0)
                [] OTHER -> DictGet(usage, "total_tokens", 0)]

\* token_info when no reply came: None from OpenRouterClient (kept as the
\* empty dict, generate_code does not read it), the error from Alibaba
NoTokenInfo(c, input_tokens) ==
    CASE c = "alibaba" -> [k \in {"error"} |-> "response.text"]
      [] c = "moonshot" ->
           [k \in {"actual_input", "output", "total"} |->
              IF k = "output" THEN 0 ELSE input_tokens]
      [] OTHER -> <<>>

\* the counts generate_code reports, read from token_info
Reported(info, estimated_input_tokens) ==
    [actual_input |-> DictGet(info, "input_tokens", estimated_input_tokens),
     output |-> DictGet(info, "output_tokens", 0),
     total |-> DictGet(info, "total_tokens", estimated_input_tokens)]

\* the separators of a path on Windows, the system the paths are written for
Seps == {"/", "\\"}

\* the names of a path between its separators
RECURSIVE Components(_)
Components(s) ==
    LET seps == {i \in 1..Len(s) : s[i] \in Seps}
    IN  IF seps = {} THEN <<s>>
        ELSE <<SubSeq(s, 1, Min(seps) - 1)>> \o Components(SubSeq(s, Min(seps) + 1, Len(s)))

\* os.path.join(base, s): a path that starts at the root drops the base
Joined(base, s) == IF s # <<>> /\ s[1] \in Seps THEN Components(s) ELSE base \o Components(s)

\* the directory names left when "", "." and ".." have been followed
RECURSIVE NormalFrom(_, _, _)
NormalFrom(cs, i, acc) ==
    IF i > Len(cs) THEN acc
    ELSE IF cs[i] \in {<<>>, <<".">>} THEN NormalFrom(cs, i + 1, acc)
    ELSE IF cs[i] = <<".", ".">>
    THEN NormalFrom(cs, i + 1, IF acc = <<>> THEN acc ELSE SubSeq(acc, 1, Len(acc) - 1))
    ELSE NormalFrom(cs, i + 1, Append(acc, cs[i]))

\* where the path s lies when it is opened from base
Location(base, s) == NormalFrom(Joined(base, s), 1, <<>>)

\* the working directory of the server
Cwd == << <<"srv">> >>

\* os.path.abspath(output_dir)
AbsOutputDir(dir) == Location(Cwd, dir)

\* os.path.join(abs_output_dir, project_name)
ProjectDir(dir, name) == Location(AbsOutputDir(dir), name)

\* the files of the loop "Create files in project directory"
FilesCreated(base, paths) ==
    {[kind |-> "file", location |-> Location(base, paths[i])] : i \in 1..Len(paths)}

\* the answer of generate_code
Answer(status, tokens, n) == [status |-> status, tokenInfo |-> tokens, filesCreated |-> n]

\* ------------------------------------------------------------ the requests

ModelNames == {"gemini", "kimi", "qwen", "qwen235"}
SuppliedKeys == {NoValue, "", "built-in", "sk-user"}
IndexTexts == {<<"0">>, <<"1">>, <<"2">>, <<"-", "1">>, <<" ", "1">>, <<"x">>}
OutputDirs ==
    { <<>>, <<"out">>, <<"\"", "out", "/", "sub", "\"">>, <<".", ".", "/", "x">>,
      <<"out", "/", ".", ".", "/", "x">> }
PrdTexts == {<<>>, <<"hello">>, <<"#", " ", "Project", ":", " ", "my", "-", "shop", "\n", "hello">>}
Uploads ==
    { <<>>,
      <<[filename |-> <<>>, decodes |-> TRUE, text |-> <<"x">>]>>,
      <<[filename |-> <<"my", " ", "app", ".", "md">>, decodes |-> TRUE, text |-> <<"hello">>]>>,
      <<[filename |-> <<"my", " ", "app", ".", "md">>, decodes |-> FALSE, text |-> <<>>]>> }

Forms ==
    [model : ModelNames, apiKey : SuppliedKeys, alibabaKeyIndex : IndexTexts,
     outputDir : OutputDirs, prdText : PrdTexts, files : Uploads]

\* the usage field of the reply: absent, whole, and with the prompt count alone
Usages ==
    { <<>>,
      [k \in {"prompt_tokens", "completion_tokens", "total_tokens"} |->
         CASE k = "prompt_tokens" -> 50 [] k = "completion_tokens" -> 70 [] OTHER -> 120],
      [k \in {"prompt_tokens"} |-> 50] }

\* the paths of the files of the descriptor in the reply
PathLists ==
    { <<>>,
      << <<"a", ".", "py">> >>,
      << <<"src", "/", "c", ".", "txt">>, <<".", ".", "/", "evil", ".", "txt">> >>,
      << <<"/", "etc", "/", "x">> >> }

\* what the upstream API can answer: no reply, or a reply whose content is a
\* well-formed document of the descriptor shape
Upstreams ==
    {[ok |-> FALSE, usage |-> <<>>, paths |-> <<>>]}
      \cup {[ok |-> TRUE, usage |-> u, paths |-> p] : u \in Usages, p \in PathLists}

GenInit ==
    /\ form \in Forms
    /\ ALIBABA_KEYS \in KeyLists
    /\ where = "key"
    /\ api_key = form.apiKey
    /\ output_dir = form.outputDir
    /\ project_name = <<>>
    /\ sent = <<>> /\ upstream = <<>> /\ token_info = <<>>
    /\ created = {} /\ generation_info = <<>> /\ answer = <<>>
    /\ NoReply /\ NoSavers /\ NoConfig /\ NoRequests

\* "Check if API key is needed"
GenKey ==
    /\ where = "key"
    /\ UNCHANGED <<reply_vars, save_vars, config_vars, race_vars>>
    /\ \E o \in {KeyChecked(form.model, form.apiKey, form.alibabaKeyIndex, ALIBABA_KEYS)} :
           /\ api_key' = IF o.status = "ok" THEN o.key ELSE api_key
           /\ IF o.status = "ok" THEN where' = "output_dir" /\ answer' = answer
              ELSE where' = "done" /\ answer' = Answer(o.status, <<>>, 0)
    /\ UNCHANGED <<form, ALIBABA_KEYS, output_dir, project_name, sent, upstream, token_info,
                   created, generation_info>>

\* "Clean and validate the output directory path"
GenOutputDir ==
    /\ where = "output_dir"
    /\ UNCHANGED <<reply_vars, save_vars, config_vars, race_vars>>
    /\ \E o \in {OutputDirChecked(output_dir)} :
           /\ output_dir' = o.dir
           /\ IF o.status = "ok" THEN where' = "content" /\ answer' = answer
              ELSE where' = "done" /\ answer' = Answer(o.status, <<>>, 0)
    /\ UNCHANGED <<form, ALIBABA_KEYS, api_key, project_name, sent, upstream, token_info,
                   created, generation_info>>

\* "Combine PRD content from files and text": a file that is no UTF-8 raises,
\* no content ends the request, else the project gets its name
GenContent ==
    /\ where = "content"
    /\ UNCHANGED <<reply_vars, save_vars, config_vars, race_vars>>
    /\ IF \E i \in 1..Len(Named(form.files)) : ~Named(form.files)[i].decodes
       THEN where' = "done" /\ answer' = Answer("500 UnicodeDecodeError", <<>>, 0)
            /\ project_name' = project_name
       ELSE IF FullPrdContent(form.files, form.prdText) = <<>>
       THEN where' = "done" /\ answer' = Answer("400 No PRD content provided", <<>>, 0)
            /\ project_name' = project_name
       ELSE where' = "send" /\ answer' = answer
            /\ project_name' = ProjectName(form.files, form.prdText)
    /\ UNCHANGED <<form, ALIBABA_KEYS, api_key, output_dir, sent, upstream, token_info,
                   created, generation_info>>

\* the client is made with api_key and sends the request; without a reply
\* the request ends
GenSend ==
    /\ where = "send"
    /\ UNCHANGED <<reply_vars, save_vars, config_vars, race_vars>>
    /\ \E u \in Upstreams :
           /\ upstream' = u
           /\ sent' = Append(sent, [client |-> ClientFor(form.model), key |-> api_key])
           /\ token_info' =
                  IF u.ok
                  THEN TokenInfo(ClientFor(form.model), u.usage,
                                 estimate_tokens(Prompt(FullPrdContent(form.files, form.prdText))))
                  ELSE NoTokenInfo(ClientFor(form.model),
                                   estimate_tokens(Prompt(FullPrdContent(form.files, form.prdText))))
           /\ IF u.ok THEN where' = "dirs" /\ answer' = answer
              ELSE where' = "done"
                   /\ answer' = Answer("500 Failed to get response from API", <<>>, 0)
    /\ UNCHANGED <<form, ALIBABA_KEYS, api_key, output_dir, project_name, created,
                   generation_info>>

\* the output directory is made, unless the system refuses, then the
\* directory of the project
GenDirs ==
    /\ where = "dirs"
    /\ UNCHANGED <<reply_vars, save_vars, config_vars, race_vars>>
    /\ \E made \in BOOLEAN :
           IF made
           THEN /\ created' = created \cup
                       {[kind |-> "dir", location |-> AbsOutputDir(output_dir)],
                        [kind |-> "dir", location |-> ProjectDir(output_dir, project_name)]}
                /\ where' = "files" /\ answer' = answer
           ELSE /\ created' = created
                /\ where' = "done" /\ answer' = Answer("400 Invalid output directory", <<>>, 0)
    /\ UNCHANGED <<form, ALIBABA_KEYS, api_key, output_dir, project_name, sent, upstream,
                   token_info, generation_info>>

\* the response is parsed (the reply of OpenRouterClient is no text and
\* raises) and the files of the descriptor are written
GenFiles ==
    /\ where = "files"
    /\ UNCHANGED <<reply_vars, save_vars, config_vars, race_vars>>
    /\ IF ClientFor(form.model) = "openrouter"
       THEN /\ created' = created
            /\ where' = "done" /\ answer' = Answer("500 TypeError", <<>>, 0)
       ELSE /\ created' = created \cup
                   FilesCreated(ProjectDir(output_dir, project_name), upstream.paths)
            /\ where' = "info" /\ answer' = answer
    /\ UNCHANGED <<form, ALIBABA_KEYS, api_key, output_dir, project_name, sent, upstream,
                   token_info, generation_info>>

\* "Create generation info file" and the answer
GenInfo ==
    /\ where = "info"
    /\ UNCHANGED <<reply_vars, save_vars, config_vars, race_vars>>
    /\ \E r \in {Reported(token_info, estimate_tokens(FullPrdContent(form.files, form.prdText)))} :
           /\ generation_info' =
                  [input_tokens |-> estimate_tokens(FullPrdContent(form.files, form.prdText)),
                   actual_input_tokens |-> r.actual_input,
                   output_tokens |-> r.output,
                   total_tokens |-> r.total]
           /\ answer' = Answer("200", r, Len(upstream.paths))
    /\ created' = created \cup
           FilesCreated(ProjectDir(output_dir, project_name), << <<"_generation_info.json">> >>)
    /\ where' = "done"
    /\ UNCHANGED <<form, ALIBABA_KEYS, api_key, output_dir, project_name, sent, upstream,
                   token_info>>

GenNext ==
    \/ GenKey
    \/ GenOutputDir
    \/ GenContent
    \/ GenSend
    \/ GenDirs
    \/ GenFiles
    \/ GenInfo

GenerateSpec == GenInit /\ [][GenNext]_vars

\* the answers that refuse a request for what it holds
Refusals ==
    {"400 Alibaba API keys not configured", "400 Invalid key index",
     "400 Please provide API key", "400 Invalid output directory path",
     "400 No PRD content provided"}

\* the request is for a model of Alibaba
ForAlibaba == form.model \in {"qwen", "qwen235"}

\* the request names no key of the server: there is none, or alibabaKeyIndex
\* is an integer outside 0 .. len(ALIBABA_KEYS) - 1
NoSuchKey ==
    \/ ALIBABA_KEYS = <<>>
    \/ /\ IntOf(form.alibabaKeyIndex).ok
       /\ ~(0 <= IntOf(form.alibabaKeyIndex).val
            /\ IntOf(form.alibabaKeyIndex).val < Len(ALIBABA_KEYS))

\* C21: for model qwen or qwen235 every upstream request carries a key of
\* ALIBABA_KEYS and never the apiKey of the client: the key at index
\* alibabaKeyIndex when that is an integer inside the list, the first key when
\* it is no integer; with an integer outside the list or an empty list the
\* request is answered 400 and no upstream request is sent.
C21_ServerKeyOnly ==
    (where # "none" /\ ForAlibaba)
    => IF NoSuchKey
       THEN /\ sent = <<>>
            /\ where = "done"
               => answer.status \in {"400 Alibaba API keys not configured",
                                     "400 Invalid key index"}
       ELSE \A k \in 1..Len(sent) :
              /\ sent[k].key = ALIBABA_KEYS[IF IntOf(form.alibabaKeyIndex).ok
                                            THEN IntOf(form.alibabaKeyIndex).val + 1 ELSE 1]
              /\ sent[k].key # form.apiKey

\* a request for qwen235 with a key of its own and the index " 1" went
\* upstream with the second key of the server and succeeded
C21_Witness ==
    /\ where = "done" /\ answer.status = "200"
    /\ form.model = "qwen235" /\ form.apiKey = "sk-user"
    /\ form.alibabaKeyIndex = <<" ", "1">>
    /\ sent = <<[client |-> "alibaba", key |-> "key-2"]>>

\* the request is refused for what it holds: ".." in outputDir, no key for a
\* model that needs one, no such key of the server, or no PRD content
Invalid ==
    \/ \E i \in 1..(Len(form.outputDir) - 1) :
          form.outputDir[i] = "." /\ form.outputDir[i + 1] = "."
    \/ ~ForAlibaba /\ form.apiKey \in {NoValue, "", "built-in"}
    \/ ForAlibaba /\ NoSuchKey
    \/ /\ form.prdText = <<>>
       /\ \A i \in 1..Len(form.files) : form.files[i].filename = <<>>

\* C22: a request to /api/generate that fails the validation of its input is
\* answered 400, and nothing is sent upstream and no directory or file is
\* created for it.
C22_RefusedBeforeAnySideEffect ==
    (where # "none" /\ Invalid)
    => /\ sent = <<>>
       /\ created = {}
       /\ where = "done" => answer.status \in Refusals

\* a request for qwen with a good key index, content, and ".." in outputDir
\* has been refused
C22_Witness ==
    /\ where = "done"
    /\ answer.status = "400 Invalid output directory path"
    /\ form.model = "qwen" /\ ~NoSuchKey /\ form.prdText # <<>>
    /\ sent = <<>> /\ created = {}

\* C23: every file generate_code creates for a descriptor lies inside the
\* project directory <output_dir>/<project_name>, whatever the paths of the
\* entries are.
C23_FilesInsideProjectDir ==
    \A c \in created :
       c.kind = "file" => IsPrefix(ProjectDir(output_dir, project_name), c.location)

\* the count the usage field carries under name is the count given
Carried(name, count) == name \in DOMAIN upstream.usage => count = upstream.usage[name]

\* C25: on a successful generation the counts in tokenInfo and in
\* _generation_info.json (actual input, output, total) are the prompt,
\* completion and total counts of the usage field of the upstream reply,
\* for each count the reply carries and for every model.
C25_TokenCountsAreUpstreams ==
    (where = "done" /\ answer.status = "200")
    => /\ Carried("prompt_tokens", answer.tokenInfo.actual_input)
       /\ Carried("completion_tokens", answer.tokenInfo.output)
       /\ Carried("total_tokens", answer.tokenInfo.total)
       /\ Carried("prompt_tokens", generation_info.actual_input_tokens)
       /\ Carried("completion_tokens", generation_info.output_tokens)
       /\ Carried("total_tokens", generation_info.total_tokens)
====
